---- MODULE Spec2Model ----
(***************************************************************************)
(* ElevationMappingNode (src/src/elevation_mapping_ros.cpp): the callbacks *)
(* of the node as threads of a state machine.  Each callback is cut into   *)
(* the steps at which it touches state another callback can see: the       *)
(* engine map_, the cached gridMap_, mapMutex_, the uncertainty scalars,   *)
(* the republishing flag and the publishers.                               *)
(*                                                                         *)
(* The engine behind map_ (ElevationMappingWrapper) is not part of the     *)
(* file; it is modelled from the specification's Map Proxy contract: a     *)
(* mutating call (input, move_to, clear) advances the engine's map to a    *)
(* new generation and takes time, get_grid_map copies the engine's map.    *)
(* The map is two cells, written one after the other, so that a copy taken *)
(* while a mutation is under way holds cells of two generations.           *)
(*                                                                         *)
(* Doubles are exact rationals: a pose value v is held as v * Scale, a     *)
(* smoothing factor as n / AlphaDen, a norm as its square.                 *)
(***************************************************************************)
EXTENDS Integers, Sequences, FiniteSets, TLC

\* ---------------------------------------------------------------- bounds
\* Callback invocations dispatched in one run.
MaxCalls == 3
\* Pose samples in one run (the fixed-point scale is exact up to this many).
MaxPoses == 3

\* ------------------------------------------------------------- constants
\* Smoothing factors are n / AlphaDen; the default 0.2 is 1 / 5.
AlphaDen == 5
DefaultAlphaNum == 1
\* recordable_fps default.
DefaultFps == 3

RECURSIVE Pow(_, _)
Pow(b, e) == IF e = 0 THEN 1 ELSE b * Pow(b, e - 1)

\* A double v is held as the integer v * Scale.
Scale == Pow(AlphaDen, MaxPoses)

\* ---------------------------------------------------------------- threads
\* One subscription per point-cloud topic, all wired to pointcloudCallback.
PcThreads == {"pc1", "pc2"}
MutatorThreads == PcThreads \cup {"pose", "clear"}
Threads == PcThreads \cup {"pose", "timer", "submap", "clear"}
NoThread == "none"
\* The thread that runs the constructor and then hands over to the spinner.
MainThread == "main"

VARIABLES
    pc,                 \* position of each callback
    calls,              \* callback invocations dispatched so far
    mapMutex,           \* mapMutex_: the thread holding it, or NoThread
    engine,             \* map_: the engine's map and the calls inside it
    myGen,              \* generation each mutating call writes
    gridMap,            \* gridMap_: the cached grid map
    enablePointCloudPublishing,
    lastSetRequest,     \* <<request.data>> of the last set_publish_points
    recordableFps,
    pubs,               \* messages published on each channel
    scans,              \* point-cloud callbacks returned, by outcome
    trace,              \* what a running callback has done so far
    inputArgs,          \* uncertainties passed to the last map_.input
    submapResponse,     \* response of the last get_raw_submap call
    positionAlpha,
    orientationAlpha,
    lowpassPosition,
    lowpassOrientation,
    positionError,      \* squared norm, scaled by Scale^2
    orientationError,   \* squared norm, scaled by Scale^2
    poseSample,         \* the sample the pose callback is processing
    poseLog             \* the samples filtered so far

vars == <<pc, calls, mapMutex, engine, myGen, gridMap,
          enablePointCloudPublishing, lastSetRequest, recordableFps, pubs,
          scans, trace, inputArgs, submapResponse,
          positionAlpha, orientationAlpha, lowpassPosition,
          lowpassOrientation, positionError, orientationError, poseSample,
          poseLog>>

nodeVars == <<mapMutex, engine, myGen, gridMap, enablePointCloudPublishing,
              lastSetRequest, recordableFps, pubs, scans, inputArgs, submapResponse>>

filterVars == <<positionAlpha, orientationAlpha, lowpassPosition,
                lowpassOrientation, positionError, orientationError,
                poseSample, poseLog>>

\* ------------------------------------------------------------ engine map
\* A cell holds the generation that wrote it and the call that made it.
Cell(g, op) == [gen |-> g, op |-> op]
InitCell == Cell(0, "initialize")

\* A mutating call enters the engine: it takes the next generation and
\* writes the first cell.
EngineBegin(t, op) ==
    /\ engine' = [engine EXCEPT
                      !.gen = engine.gen + 1,
                      !.cells = <<Cell(engine.gen + 1, op), engine.cells[2]>>,
                      !.inside = engine.inside \cup {t}]
    /\ myGen' = [myGen EXCEPT ![t] = Cell(engine.gen + 1, op)]

\* The call writes the second cell and returns.
EngineEnd(t) ==
    /\ engine' = [engine EXCEPT !.cells = <<engine.cells[1], myGen[t]>>,
                                !.inside = engine.inside \ {t}]
    /\ myGen' = [myGen EXCEPT ![t] = InitCell]

\* ------------------------------------------------------------- geometry
\* Lengths and positions are in half metres, the resolution in half metres
\* per cell; positions are relative to the centre of the map.
EmptyGeometry == [resolution |-> 0, length |-> <<0, 0>>]

\* No get_raw_submap call has been answered yet.
NoResponse ==
    [request |-> [position |-> <<0, 0>>, length |-> <<0, 0>>, layers |-> <<>>],
     status |-> "none", success |-> FALSE,
     cells |-> <<InitCell, InitCell>>, length |-> <<0, 0>>,
     size |-> <<0, 0>>, zeroSize |-> <<0, 0>>, layers |-> <<>>]

\* ---------------------------------------------------------- construction
ZeroVec3 == <<0, 0, 0>>
UnitQuat == <<0, 0, 0, Scale>>

InitWith(posAlphas, oriAlphas, fpsValues) ==
    /\ pc = [t \in Threads \cup {MainThread} |->
                IF t = MainThread THEN "initialize" ELSE "idle"]
    /\ calls = 0
    /\ mapMutex = NoThread
    /\ engine = [gen |-> 0, cells |-> <<InitCell, InitCell>>, inside |-> {},
                 initialized |-> 0, geometry |-> EmptyGeometry]
    /\ myGen = [t \in MutatorThreads |-> InitCell]
    /\ gridMap = [exists |-> FALSE, cells |-> <<InitCell, InitCell>>,
                  geometry |-> EmptyGeometry]
    /\ enablePointCloudPublishing \in BOOLEAN
    /\ lastSetRequest = <<>>
    /\ recordableFps \in fpsValues
    /\ pubs = [map |-> 0, alive |-> 0, points |-> 0, recordable |-> 0]
    /\ scans = [ok |-> 0, failed |-> 0]
    /\ trace = [t \in Threads |-> <<>>]
    /\ inputArgs = <<0, 0>>
    /\ submapResponse = NoResponse
    /\ positionAlpha \in posAlphas
    /\ orientationAlpha \in oriAlphas
    /\ lowpassPosition = ZeroVec3
    /\ lowpassOrientation = UnitQuat
    /\ positionError = 0
    /\ orientationError = 0
    /\ poseSample = "none"
    /\ poseLog = <<>>

Init == InitWith({DefaultAlphaNum}, {DefaultAlphaNum}, {0, DefaultFps})

Goto(t, where) == pc' = [pc EXCEPT ![t] = where]

\* Lines 23-24: map_.initialize(nh_), with the map geometry of the
\* configuration.
CtorInitialize(geometry) ==
    /\ pc[MainThread] = "initialize"
    /\ engine' = [engine EXCEPT !.initialized = engine.initialized + 1,
                                !.geometry = geometry]
    /\ Goto(MainThread, "register")
    /\ UNCHANGED <<calls, mapMutex, myGen, gridMap,
                   enablePointCloudPublishing, lastSetRequest, recordableFps,
                   pubs, scans, trace, inputArgs, submapResponse>>
    /\ UNCHANGED filterVars

\* Lines 25-54: the parameters are read, the subscribers, publishers,
\* services and the timer are created; the constructor returns.
CtorRegister ==
    /\ pc[MainThread] = "register"
    /\ Goto(MainThread, "spin")
    /\ UNCHANGED <<calls, trace>>
    /\ UNCHANGED nodeVars
    /\ UNCHANGED filterVars

Constructor(geometries) ==
    \/ \E geometry \in geometries : CtorInitialize(geometry)
    \/ CtorRegister

\* A callback dispatched as soon as the process runs, registered or not.
DispatchUnregistered(t) ==
    /\ pc[t] = "idle"
    /\ calls < MaxCalls
    /\ calls' = calls + 1

\* A callback is dispatched, which takes its registration (lines 34-51);
\* the run's budget of invocations.
Dispatch(t) ==
    /\ pc[MainThread] = "spin"
    /\ pc[t] = "idle"
    /\ calls < MaxCalls
    /\ calls' = calls + 1

Did(t, what) == trace' = [trace EXCEPT ![t] = Append(trace[t], what)]

\* ------------------------------------------------------ pointcloudCallback
\* The catch block without its return: the scan goes on into map_.input.
PcLookupFailNoReturn(t) ==
    /\ Dispatch(t)
    /\ scans' = [scans EXCEPT !.failed = scans.failed + 1]
    /\ EngineBegin(t, "input")
    /\ inputArgs' = <<positionError, orientationError>>
    /\ Goto(t, "inputting")
    /\ trace' = [trace EXCEPT ![t] = <<"input">>]
    /\ UNCHANGED <<mapMutex, gridMap, enablePointCloudPublishing,
                   lastSetRequest, recordableFps, pubs, submapResponse>>
    /\ UNCHANGED filterVars

\* Lines 69-77: the lookup throws; log and return.
PcLookupFail(t) ==
    /\ Dispatch(t)
    /\ scans' = [scans EXCEPT !.failed = scans.failed + 1]
    /\ trace' = [trace EXCEPT ![t] = <<>>]
    /\ UNCHANGED <<pc, mapMutex, engine, myGen, gridMap,
                   enablePointCloudPublishing, lastSetRequest, recordableFps,
                   pubs, inputArgs, submapResponse>>
    /\ UNCHANGED filterVars

\* map_.input entered with the two uncertainties in each other's place.
PcInputBeginSwapped(t) ==
    /\ Dispatch(t)
    /\ EngineBegin(t, "input")
    /\ inputArgs' = <<orientationError, positionError>>
    /\ Goto(t, "inputting")
    /\ trace' = [trace EXCEPT ![t] = <<"input">>]
    /\ UNCHANGED <<mapMutex, gridMap, enablePointCloudPublishing,
                   lastSetRequest, recordableFps, pubs, scans, submapResponse>>
    /\ UNCHANGED filterVars

\* Lines 69-82: the lookup succeeds; map_.input is entered with the
\* uncertainties as they are now.
PcInputBegin(t) ==
    /\ Dispatch(t)
    /\ EngineBegin(t, "input")
    /\ inputArgs' = <<positionError, orientationError>>
    /\ Goto(t, "inputting")
    /\ trace' = [trace EXCEPT ![t] = <<"input">>]
    /\ UNCHANGED <<mapMutex, gridMap, enablePointCloudPublishing,
                   lastSetRequest, recordableFps, pubs, scans, submapResponse>>
    /\ UNCHANGED filterVars

\* Line 82: map_.input returns.
PcInputEnd(t) ==
    /\ pc[t] = "inputting"
    /\ EngineEnd(t)
    /\ Goto(t, "lock")
    /\ UNCHANGED <<calls, mapMutex, gridMap, enablePointCloudPublishing,
                   lastSetRequest, recordableFps, pubs, scans, trace,
                   inputArgs, submapResponse>>
    /\ UNCHANGED filterVars

\* Line 83: scoped_lock on mapMutex_.
PcLock(t) ==
    /\ pc[t] = "lock"
    /\ mapMutex \in {NoThread, t}
    /\ mapMutex' = t
    /\ Goto(t, "snap")
    /\ UNCHANGED <<calls, engine, myGen, gridMap, enablePointCloudPublishing,
                   lastSetRequest, recordableFps, pubs, scans, trace,
                   inputArgs, submapResponse>>
    /\ UNCHANGED filterVars

\* Line 84: map_.get_grid_map(gridMap_) copies the first cell ...
PcSnapBegin(t) ==
    /\ pc[t] = "snap"
    /\ gridMap' = [exists |-> TRUE,
                   cells |-> <<engine.cells[1], gridMap.cells[2]>>,
                   geometry |-> engine.geometry]
    /\ Goto(t, "snapping")
    /\ UNCHANGED <<calls, mapMutex, engine, myGen,
                   enablePointCloudPublishing, lastSetRequest, recordableFps,
                   pubs, scans, trace, inputArgs, submapResponse>>
    /\ UNCHANGED filterVars

\* ... and then the second.
PcSnapEnd(t) ==
    /\ pc[t] = "snapping"
    /\ gridMap' = [gridMap EXCEPT !.cells = <<gridMap.cells[1], engine.cells[2]>>]
    /\ Goto(t, "tomsg")
    /\ Did(t, "snapshot")
    /\ UNCHANGED <<calls, mapMutex, engine, myGen,
                   enablePointCloudPublishing, lastSetRequest, recordableFps,
                   pubs, scans, inputArgs, submapResponse>>
    /\ UNCHANGED filterVars

\* The message is built but the lock is kept past the end of the block.
PcToMessageKeepsLock(t) ==
    /\ pc[t] = "tomsg"
    /\ Goto(t, "pubmap")
    /\ UNCHANGED <<calls, mapMutex, engine, myGen, gridMap,
                   enablePointCloudPublishing, lastSetRequest, recordableFps,
                   pubs, scans, trace, inputArgs, submapResponse>>
    /\ UNCHANGED filterVars

\* Lines 85-87: toMessage(gridMap_, msg), then unlock.
PcToMessageUnlock(t) ==
    /\ pc[t] = "tomsg"
    /\ mapMutex' = IF mapMutex = t THEN NoThread ELSE mapMutex
    /\ Goto(t, "pubmap")
    /\ UNCHANGED <<calls, engine, myGen, gridMap, enablePointCloudPublishing,
                   lastSetRequest, recordableFps, pubs, scans, trace,
                   inputArgs, submapResponse>>
    /\ UNCHANGED filterVars

\* Lines 88-89: mapPub_.publish(msg).
PcPublishMap(t) ==
    /\ pc[t] = "pubmap"
    /\ pubs' = [pubs EXCEPT !.map = pubs.map + 1]
    /\ Goto(t, "pubalive")
    /\ Did(t, "map")
    /\ UNCHANGED <<calls, mapMutex, engine, myGen, gridMap,
                   enablePointCloudPublishing, lastSetRequest, recordableFps,
                   scans, inputArgs, submapResponse>>
    /\ UNCHANGED filterVars

\* The heartbeat moved inside the if of line 92: published only when
\* point-cloud republishing is on.
PcPublishAliveIfEnabled(t) ==
    /\ pc[t] = "pubalive"
    /\ pubs' = [pubs EXCEPT !.alive =
                   IF enablePointCloudPublishing THEN pubs.alive + 1
                                                 ELSE pubs.alive]
    /\ Goto(t, "check")
    /\ Did(t, "alive")
    /\ UNCHANGED <<calls, mapMutex, engine, myGen, gridMap,
                   enablePointCloudPublishing, lastSetRequest, recordableFps,
                   scans, inputArgs, submapResponse>>
    /\ UNCHANGED filterVars

\* Line 90: alivePub_.publish.
PcPublishAlive(t) ==
    /\ pc[t] = "pubalive"
    /\ pubs' = [pubs EXCEPT !.alive = pubs.alive + 1]
    /\ Goto(t, "check")
    /\ Did(t, "alive")
    /\ UNCHANGED <<calls, mapMutex, engine, myGen, gridMap,
                   enablePointCloudPublishing, lastSetRequest, recordableFps,
                   scans, inputArgs, submapResponse>>
    /\ UNCHANGED filterVars

\* Lines 92-99: the flag is read; without it the callback returns.
PcCheckFlag(t) ==
    /\ pc[t] = "check"
    /\ IF enablePointCloudPublishing
       THEN /\ Goto(t, "pubpoints")
            /\ UNCHANGED <<scans, trace>>
       ELSE /\ Goto(t, "idle")
            /\ scans' = [scans EXCEPT !.ok = scans.ok + 1]
            /\ trace' = [trace EXCEPT ![t] = <<>>]
    /\ UNCHANGED <<calls, mapMutex, engine, myGen, gridMap,
                   enablePointCloudPublishing, lastSetRequest, recordableFps,
                   pubs, inputArgs, submapResponse>>
    /\ UNCHANGED filterVars

\* Lines 93, 114-118: publishAsPointCloud reads gridMap_ and publishes;
\* the callback returns.
PcPublishAsPointCloud(t) ==
    /\ pc[t] = "pubpoints"
    /\ pubs' = [pubs EXCEPT !.points = pubs.points + 1]
    /\ scans' = [scans EXCEPT !.ok = scans.ok + 1]
    /\ Goto(t, "idle")
    /\ trace' = [trace EXCEPT ![t] = <<>>]
    /\ UNCHANGED <<calls, mapMutex, engine, myGen, gridMap,
                   enablePointCloudPublishing, lastSetRequest, recordableFps,
                   inputArgs, submapResponse>>
    /\ UNCHANGED filterVars

PointcloudCallback(t) ==
    \/ PcLookupFail(t)
    \/ PcInputBegin(t)
    \/ PcInputEnd(t)
    \/ PcLock(t)
    \/ PcSnapBegin(t)
    \/ PcSnapEnd(t)
    \/ PcToMessageUnlock(t)
    \/ PcPublishMap(t)
    \/ PcPublishAlive(t)
    \/ PcCheckFlag(t)
    \/ PcPublishAsPointCloud(t)

\* ------------------------------------------------------------ pose filter
\* The two weights exchanged: (1 - alpha) on the raw sample.
LowpassSwapped(alphaNum, raw, smoothed) ==
    [i \in DOMAIN raw |->
        ((AlphaDen - alphaNum) * raw[i] * Scale + alphaNum * smoothed[i])
            \div AlphaDen]

\* Lines 108-109: smoothed = alpha * raw + (1 - alpha) * smoothed, on each
\* component; raw is in sample units, smoothed is scaled by Scale.
Lowpass(alphaNum, raw, smoothed) ==
    [i \in DOMAIN raw |->
        (alphaNum * raw[i] * Scale + (AlphaDen - alphaNum) * smoothed[i])
            \div AlphaDen]

\* The norm taken without squaring the differences (their plain sum).
NormSqUnsquared(raw, smoothed) ==
    LET d == [i \in DOMAIN raw |-> raw[i] * Scale - smoothed[i]]
    IN IF Len(raw) = 3 THEN d[1] + d[2] + d[3] ELSE d[1] + d[2] + d[3] + d[4]

RECURSIVE SumSq(_, _)
SumSq(v, n) == IF n = 0 THEN 0 ELSE v[n] * v[n] + SumSq(v, n - 1)

\* Lines 110-111: (raw - smoothed).norm(), held as its square.
NormSq(raw, smoothed) ==
    SumSq([i \in DOMAIN raw |-> raw[i] * Scale - smoothed[i]], Len(raw))

\* ------------------------------------------------------------ poseCallback
\* Lines 103-104: map_.move_to(position) is entered.
PoseMoveBegin(sample) ==
    /\ Dispatch("pose")
    /\ Len(poseLog) < MaxPoses
    /\ poseSample' = sample
    /\ EngineBegin("pose", "move_to")
    /\ Goto("pose", "moving")
    /\ trace' = [trace EXCEPT !["pose"] = <<"move_to">>]
    /\ UNCHANGED <<mapMutex, gridMap, enablePointCloudPublishing,
                   lastSetRequest, recordableFps, pubs, scans, inputArgs, submapResponse>>
    /\ UNCHANGED <<positionAlpha, orientationAlpha, lowpassPosition,
                   lowpassOrientation, positionError, orientationError,
                   poseLog>>

\* The pose callback refreshing gridMap_ once move_to has returned.
PoseMoveEndWithSnapshot ==
    /\ pc["pose"] = "moving"
    /\ EngineEnd("pose")
    /\ gridMap' = [exists |-> TRUE, cells |-> engine'.cells,
                   geometry |-> engine.geometry]
    /\ Goto("pose", "filter")
    /\ UNCHANGED <<calls, mapMutex, enablePointCloudPublishing,
                   lastSetRequest, recordableFps, pubs, scans, trace,
                   inputArgs, submapResponse>>
    /\ UNCHANGED filterVars

\* Line 104: map_.move_to returns.
PoseMoveEnd ==
    /\ pc["pose"] = "moving"
    /\ EngineEnd("pose")
    /\ Goto("pose", "filter")
    /\ UNCHANGED <<calls, mapMutex, gridMap, enablePointCloudPublishing,
                   lastSetRequest, recordableFps, pubs, scans, trace,
                   inputArgs, submapResponse>>
    /\ UNCHANGED filterVars

\* Compare-then-filter: positionError_ taken against the smoothed position
\* as it was before this sample.
PoseFilterCompareFirst ==
    /\ pc["pose"] = "filter"
    /\ positionError' = NormSq(poseSample.position, lowpassPosition)
    /\ lowpassPosition' = Lowpass(positionAlpha, poseSample.position,
                                  lowpassPosition)
    /\ lowpassOrientation' = Lowpass(orientationAlpha, poseSample.orientation,
                                     lowpassOrientation)
    /\ poseLog' = Append(poseLog, poseSample)
    /\ Goto("pose", "orierr")
    /\ Did("pose", "filter")
    /\ UNCHANGED <<calls, positionAlpha, orientationAlpha, orientationError,
                   poseSample>>
    /\ UNCHANGED nodeVars

\* Lines 105-110: both accumulators are smoothed, then positionError_ is
\* taken against the smoothed position as it is now.
PoseFilter ==
    /\ pc["pose"] = "filter"
    /\ LET newPosition == Lowpass(positionAlpha, poseSample.position,
                                  lowpassPosition)
       IN /\ lowpassPosition' = newPosition
          /\ positionError' = NormSq(poseSample.position, newPosition)
    /\ lowpassOrientation' = Lowpass(orientationAlpha, poseSample.orientation,
                                     lowpassOrientation)
    /\ poseLog' = Append(poseLog, poseSample)
    /\ Goto("pose", "orierr")
    /\ Did("pose", "filter")
    /\ UNCHANGED <<calls, positionAlpha, orientationAlpha, orientationError,
                   poseSample>>
    /\ UNCHANGED nodeVars

\* Lines 111-112: orientationError_; the callback returns.
PoseOrientationError ==
    /\ pc["pose"] = "orierr"
    /\ orientationError' = NormSq(poseSample.orientation, lowpassOrientation)
    /\ poseSample' = "none"
    /\ Goto("pose", "idle")
    /\ trace' = [trace EXCEPT !["pose"] = <<>>]
    /\ UNCHANGED <<calls, positionAlpha, orientationAlpha, lowpassPosition,
                   lowpassOrientation, positionError, poseLog>>
    /\ UNCHANGED nodeVars

PoseCallback(samples) ==
    \/ \E sample \in samples : PoseMoveBegin(sample)
    \/ PoseMoveEnd
    \/ PoseFilter
    \/ PoseOrientationError

\* ----------------------------------------------------------- timerCallback
\* A timer created whatever recordable_fps is.
TimerFireAnyRate ==
    /\ Dispatch("timer")
    /\ Goto("timer", "check")
    /\ UNCHANGED trace
    /\ UNCHANGED nodeVars
    /\ UNCHANGED filterVars

\* Lines 48-52, 167: the timer exists when recordable_fps > 0; it fires.
TimerFire ==
    /\ recordableFps > 0
    /\ Dispatch("timer")
    /\ Goto("timer", "check")
    /\ UNCHANGED trace
    /\ UNCHANGED nodeVars
    /\ UNCHANGED filterVars

\* Lines 169-171: gridMap_.exists("elevation"); with the layer, layers
\* (held in the timer's trace) becomes {"elevation"}; without it, return.
TimerCheck ==
    /\ pc["timer"] = "check"
    /\ IF gridMap.exists
       THEN /\ Goto("timer", "lock")
            /\ trace' = [trace EXCEPT !["timer"] = <<"elevation">>]
       ELSE /\ Goto("timer", "idle")
            /\ UNCHANGED trace
    /\ UNCHANGED calls
    /\ UNCHANGED nodeVars
    /\ UNCHANGED filterVars

\* Line 172: scoped_lock on mapMutex_.
TimerLock ==
    /\ pc["timer"] = "lock"
    /\ mapMutex \in {NoThread, "timer"}
    /\ mapMutex' = "timer"
    /\ Goto("timer", "ser")
    /\ UNCHANGED <<calls, engine, myGen, gridMap, enablePointCloudPublishing,
                   lastSetRequest, recordableFps, pubs, scans, trace,
                   inputArgs, submapResponse>>
    /\ UNCHANGED filterVars

\* Line 173: toMessage(gridMap_, layers, msg).
TimerToMessage ==
    /\ pc["timer"] = "ser"
    /\ Goto("timer", "pub")
    /\ UNCHANGED <<calls, trace>>
    /\ UNCHANGED nodeVars
    /\ UNCHANGED filterVars

\* Lines 174-175: recordablePub_.publish(msg), the message holding the
\* layers listed; the scoped lock is released where its block ends.
TimerPublishUnlock ==
    /\ pc["timer"] = "pub"
    /\ pubs' = [pubs EXCEPT !.recordable = pubs.recordable + 1]
    /\ mapMutex' = IF mapMutex = "timer" THEN NoThread ELSE mapMutex
    /\ Goto("timer", "idle")
    /\ trace' = [trace EXCEPT !["timer"] = <<>>]
    /\ UNCHANGED <<calls, engine, myGen, gridMap,
                   enablePointCloudPublishing, lastSetRequest, recordableFps,
                   scans, inputArgs, submapResponse>>
    /\ UNCHANGED filterVars

TimerCallback ==
    \/ TimerFire
    \/ TimerCheck
    \/ TimerLock
    \/ TimerToMessage
    \/ TimerPublishUnlock

\* ---------------------------------------------------------------- services
\* Lines 120-124: get_raw_submap is called.
SubmapRequest ==
    /\ Dispatch("submap")
    /\ Goto("submap", "extract")
    /\ UNCHANGED trace
    /\ UNCHANGED nodeVars
    /\ UNCHANGED filterVars

Min(a, b) == IF a <= b THEN a ELSE b
Max(a, b) == IF a >= b THEN a ELSE b

\* The layers the engine writes into a grid map.
MapLayers(map) == IF map.exists THEN <<"elevation", "variance">> ELSE <<>>

\* Along one axis, the requested interval [c - l/2, c + l/2] against the
\* map's [-L/2, L/2], both doubled.
AxisInside(c, l, L) == -L <= 2 * c - l /\ 2 * c + l <= L
AxisOverlap(c, l, L) ==
    Max(0, (Min(2 * c + l, L) - Max(2 * c - l, -L)) \div 2)

\* Number of cells of a length at a resolution.
CellsOf(length, resolution) ==
    IF resolution = 0 THEN 0 ELSE length \div resolution

\* GridMap::getSubmap(position, length, isSuccess): the region fully inside
\* succeeds with the requested length; a partly overlapping one fails and
\* keeps the overlap; a region outside fails with an empty map.
GridMapGetSubmap(map, position, length) ==
    LET L == map.geometry.length
        inside == \A i \in 1..2 : AxisInside(position[i], length[i], L[i])
        overlap == [i \in 1..2 |-> AxisOverlap(position[i], length[i], L[i])]
        len == IF inside THEN length
               ELSE IF \A i \in 1..2 : overlap[i] > 0 THEN overlap
               ELSE <<0, 0>>
    IN  [isSuccess |-> inside,
         length |-> len,
         size |-> [i \in 1..2 |-> CellsOf(len[i], map.geometry.resolution)],
         layers |-> MapLayers(map)]

\* Lines 129-130: Eigen::MatrixXd::Zero(length(0), length(1)), the length in
\* metres converted to an index by truncation.
ZeroSize(length) == [i \in 1..2 |-> length[i] \div 2]

\* Lines 131-139.
AuxLayers ==
    <<"horizontal_variance_x", "horizontal_variance_y",
      "horizontal_variance_xy", "time", "color", "lowest_scan_point",
      "sensor_x_at_lowest_scan", "sensor_y_at_lowest_scan",
      "sensor_z_at_lowest_scan">>

Range(seq) == { seq[i] : i \in 1..Len(seq) }

\* The layer list of the request ignored.
LayersToSendAll(requested, subMapLayers) == subMapLayers

\* Lines 141-150: all layers of the submap, or the requested ones.
LayersToSend(requested, subMapLayers) ==
    IF requested = <<>> THEN subMapLayers ELSE requested

\* Lines 128-151: the submap is cut out of gridMap_, the auxiliary layers
\* are added and the selected layers are serialized into the response.
\* GridMap::add asserts that the matrix has the size of the map: a build
\* with assertions aborts on a mismatch, one without stores the matrix.
\* GridMapRosConverter::toMessage throws on a layer the map does not have.
SubmapExtract(request) ==
    /\ pc["submap"] = "extract"
    /\ \E asserts \in BOOLEAN :
         LET subMap == GridMapGetSubmap(gridMap, request.position,
                                        request.length)
             zeroSize == ZeroSize(subMap.length)
             subMapLayers == subMap.layers \o AuxLayers
             layers == LayersToSend(request.layers, subMapLayers)
             raised == \/ asserts /\ zeroSize # subMap.size
                       \/ ~(Range(layers) \subseteq Range(subMapLayers))
         IN  submapResponse' =
                 [request |-> request,
                  status |-> IF raised THEN "raised" ELSE "returned",
                  success |-> subMap.isSuccess,
                  cells |-> gridMap.cells,
                  length |-> subMap.length,
                  size |-> subMap.size,
                  zeroSize |-> zeroSize,
                  layers |-> layers]
    /\ Goto("submap", "idle")
    /\ UNCHANGED <<calls, mapMutex, engine, myGen, gridMap,
                   enablePointCloudPublishing, lastSetRequest, recordableFps,
                   pubs, scans, trace, inputArgs>>
    /\ UNCHANGED filterVars

\* Lines 156-157: map_.clear() is entered.
ClearBegin ==
    /\ Dispatch("clear")
    /\ EngineBegin("clear", "clear")
    /\ Goto("clear", "clearing")
    /\ UNCHANGED <<mapMutex, gridMap, enablePointCloudPublishing,
                   lastSetRequest, recordableFps, pubs, scans, trace,
                   inputArgs, submapResponse>>
    /\ UNCHANGED filterVars

\* Lines 157-158: map_.clear() returns; the handler returns true.
ClearEnd ==
    /\ pc["clear"] = "clearing"
    /\ EngineEnd("clear")
    /\ Goto("clear", "idle")
    /\ UNCHANGED <<calls, mapMutex, gridMap, enablePointCloudPublishing,
                   lastSetRequest, recordableFps, pubs, scans, trace,
                   inputArgs, submapResponse>>
    /\ UNCHANGED filterVars

\* The handler switching republishing on whatever request.data says.
SetPublishPointAlwaysOn(data) ==
    /\ pc[MainThread] = "spin"
    /\ calls < MaxCalls
    /\ calls' = calls + 1
    /\ enablePointCloudPublishing' = TRUE
    /\ lastSetRequest' = <<data>>
    /\ UNCHANGED <<pc, mapMutex, engine, myGen, gridMap, recordableFps, pubs,
                   scans, trace, inputArgs, submapResponse>>
    /\ UNCHANGED filterVars

\* Lines 161-165: set_publish_points.
SetPublishPoint(data) ==
    /\ pc[MainThread] = "spin"
    /\ calls < MaxCalls
    /\ calls' = calls + 1
    /\ enablePointCloudPublishing' = data
    /\ lastSetRequest' = <<data>>
    /\ UNCHANGED <<pc, mapMutex, engine, myGen, gridMap, recordableFps, pubs,
                   scans, trace, inputArgs, submapResponse>>
    /\ UNCHANGED filterVars

\* --------------------------------------------------------- specifications
\* Pose samples of the concurrent specification.
NodeSamples ==
    { [position |-> <<0, 2, 1>>, orientation |-> <<1, 0, 0, 0>>] }

\* Map geometry and get_raw_submap request of the concurrent specification:
\* a 4 m x 4 m map of 1 m cells, a 2 m x 2 m region at its centre.
NodeGeometries == { [resolution |-> 2, length |-> <<8, 8>>] }
NodeRequests ==
    { [position |-> <<0, 0>>, length |-> <<4, 4>>, layers |-> <<>>] }

\* The transport runtime dispatches the callbacks concurrently.
Next ==
    \/ Constructor(NodeGeometries)
    \/ \E t \in PcThreads : PointcloudCallback(t)
    \/ PoseCallback(NodeSamples)
    \/ TimerCallback
    \/ SubmapRequest
    \/ \E request \in NodeRequests : SubmapExtract(request)
    \/ ClearBegin
    \/ ClearEnd
    \/ \E data \in BOOLEAN : SetPublishPoint(data)

Spec == Init /\ [][Next]_vars
\* Pose samples and smoothing factors of the pose-filter specification.
PoseSamples ==
    { [position |-> <<0, 0, 0>>, orientation |-> <<0, 0, 0, 1>>],
      [position |-> <<1, 0, 0>>, orientation |-> <<0, 0, 0, 1>>],
      [position |-> <<0, 2, 1>>, orientation |-> <<1, 0, 0, 0>>],
      [position |-> <<2, 1, 2>>, orientation |-> <<0, 1, 1, 0>>] }

InitPose == InitWith({1, 3, AlphaDen}, {1, 2}, {DefaultFps})

\* Pose samples processed one after another.
NextPose ==
    \/ Constructor(NodeGeometries)
    \/ PoseCallback(PoseSamples)

SpecPose == InitPose /\ [][NextPose]_vars

\* Fair scheduling: a callback that can take its next step takes it, and a
\* callback waiting for mapMutex_ gets it if it is free again and again.
PcProgress(t) == pc[t] \notin {"idle", "lock"} /\ PointcloudCallback(t)
TimerProgress == pc["timer"] \notin {"idle", "lock"} /\ TimerCallback
Fairness ==
    /\ \A t \in PcThreads : WF_vars(PcProgress(t)) /\ SF_vars(PcLock(t))
    /\ WF_vars(TimerProgress)
    /\ SF_vars(TimerLock)

\* The callbacks that take mapMutex_, and the service that switches the
\* branch of line 92.
NextLock ==
    \/ Constructor(NodeGeometries)
    \/ \E t \in PcThreads : PointcloudCallback(t)
    \/ TimerCallback
    \/ \E data \in BOOLEAN : SetPublishPoint(data)

SpecFair == Init /\ [][NextLock]_vars /\ Fairness

\* Map geometries (0.5 m and 1 m cells) and requests of the get_raw_submap
\* specification: regions inside, across the edge of and outside the map.
SubmapGeometries ==
    { [resolution |-> r, length |-> <<8, 8>>] : r \in {1, 2} }
SubmapRequests ==
    { [position |-> p, length |-> l, layers |-> n] :
        p \in {<<0, 0>>, <<3, 0>>, <<20, 0>>},
        l \in {<<4, 4>>, <<2, 4>>},
        n \in {<<>>, <<"elevation">>, <<"time", "elevation">>, <<"slope">>} }

\* One scan topic fills the cache; get_raw_submap is called in between.
NextSubmap ==
    \/ Constructor(SubmapGeometries)
    \/ PointcloudCallback("pc1")
    \/ SubmapRequest
    \/ \E request \in SubmapRequests : SubmapExtract(request)

SpecSubmap == Init /\ [][NextSubmap]_vars

\* ------------------------------------------------------------------ claims
PcIdle == \A t \in PcThreads : pc[t] = "idle"

\* C1: a point-cloud callback whose transform lookup fails returns at once:
\* it does not enter the engine's input, leaves gridMap_ as it was and
\* publishes on no channel.
C1_FailedLookupDropsScan ==
    [][scans'.failed # scans.failed =>
          /\ engine' = engine
          /\ inputArgs' = inputArgs
          /\ gridMap' = gridMap
          /\ pubs' = pubs
          /\ mapMutex' = mapMutex
          /\ pc' = pc]_vars

\* A lookup has failed while a map was cached and published before.
C1_Witness == scans.failed > 0 /\ gridMap.exists /\ pubs.map > 0

\* C2: the snapshot a point-cloud callback has copied into gridMap_ holds
\* one engine generation, and no mutating call is inside the engine while
\* the copy is under way.
C2_SnapshotOneGeneration ==
    \A t \in PcThreads :
        /\ pc[t] = "snapping" => engine.inside = {}
        /\ pc[t] = "tomsg" => gridMap.cells[1].gen = gridMap.cells[2].gen

\* C3: at most one mutating call (input, move_to, clear) is inside the
\* engine at any time.
C3_EngineCallsSerialized == Cardinality(engine.inside) <= 1

\* The next step of thread t reads gridMap_ for publishing or for a service
\* response: lines 86, 116, 128, 170, 173.
ReadsGridMap(t) ==
    \/ t \in PcThreads /\ pc[t] \in {"tomsg", "pubpoints"}
    \/ t = "timer" /\ pc[t] \in {"check", "ser"}
    \/ t = "submap" /\ pc[t] = "extract"

\* C4: reads of gridMap_ for publishing or for a service response are made
\* under mapMutex_, so that none is made while a point-cloud callback is in
\* the middle of writing gridMap_.
C4_NoReadOverlapsWrite ==
    \A r \in Threads, w \in PcThreads :
        (r # w /\ pc[w] = "snapping") => ~ReadsGridMap(r)

\* C5: no callback publishes on any channel while it holds mapMutex_.
C5_PublishOutsideLock ==
    [][\A t \in Threads :
          (pc'[t] # pc[t] /\ pubs' # pubs) => mapMutex # t]_vars

\* The engine has completed a clear and nothing has entered it since.
EnginePostClear ==
    /\ engine.inside = {}
    /\ engine.cells[1].op = "clear"
    /\ engine.cells[2] = engine.cells[1]

EmptyCell(c) == c.op \in {"initialize", "clear"}

\* C6: get_raw_submap served right after clear_map, with no scan processed
\* in between, returns the engine's post-clear (empty) map.  The handler
\* touches shared state only where it cuts the submap out (line 128), so
\* the request is served after the clear exactly when that step is.
C6_SubmapAfterClearIsEmpty ==
    [][(/\ pc["submap"] = "extract"
        /\ pc'["submap"] = "idle"
        /\ EnginePostClear
        /\ \A t \in Threads \ {"submap"} : pc[t] = "idle")
       => \A i \in 1..2 : EmptyCell(submapResponse'.cells[i])]_vars

\* What a point-cloud callback has done when it stands at a position.
PcDone(where) ==
    CASE where = "idle" -> <<>>
      [] where \in {"inputting", "lock", "snap", "snapping"} -> <<"input">>
      [] where \in {"tomsg", "pubmap"} -> <<"input", "snapshot">>
      [] where = "pubalive" -> <<"input", "snapshot", "map">>
      [] where \in {"check", "pubpoints"} ->
            <<"input", "snapshot", "map", "alive">>

PcAt(positions) == Cardinality({t \in PcThreads : pc[t] \in positions})

\* C7: full-map messages and heartbeats each number the scans whose lookup
\* succeeded (those returned, and those under way that have published
\* theirs already), and a scan goes input, snapshot, full map, heartbeat,
\* and only then the optional point cloud.
C7_OnePublishPerScan ==
    /\ pubs.map = scans.ok + PcAt({"pubalive", "check", "pubpoints"})
    /\ pubs.alive = scans.ok + PcAt({"check", "pubpoints"})
    /\ \A t \in PcThreads : trace[t] = PcDone(pc[t])
    /\ pubs.points <= pubs.alive

\* Two scans have succeeded and one has failed, all returned.
C7_Witness == PcIdle /\ scans.ok >= 2 /\ scans.failed >= 1 /\ pubs.alive = 2

\* C8: the flag is what the last set_publish_points asked for; a scan that
\* finds it set publishes one point cloud, a scan that finds it clear, or
\* whose lookup failed, publishes none.
C8_PublishPointFlag ==
    /\ [](lastSetRequest # <<>> =>
             enablePointCloudPublishing = lastSetRequest[1])
    /\ [][/\ \A t \in PcThreads :
               /\ (pc[t] = "check" /\ pc'[t] # "check") =>
                     /\ pc'[t] = (IF enablePointCloudPublishing
                                  THEN "pubpoints" ELSE "idle")
                     /\ pubs' = pubs
               /\ (pc[t] = "pubpoints" /\ pc'[t] # "pubpoints") =>
                     /\ pc'[t] = "idle"
                     /\ pubs'.points = pubs.points + 1
          /\ pubs'.points # pubs.points =>
                \E t \in PcThreads :
                    pc[t] = "pubpoints" /\ pc'[t] = "idle"
          /\ scans'.failed # scans.failed => pubs'.points = pubs.points]_vars

\* After set_publish_points(true) a scan has published its point cloud.
C8_Witness == lastSetRequest = <<TRUE>> /\ pubs.points > 0 /\ PcIdle

\* C9: a pose callback enters move_to as its first step, once, updates the
\* filter only after move_to has returned, and neither writes gridMap_ nor
\* publishes.
C9_PoseCallbackMovesOnly ==
    /\ [](trace["pose"] =
             (CASE pc["pose"] = "idle" -> <<>>
                [] pc["pose"] \in {"moving", "filter"} -> <<"move_to">>
                [] pc["pose"] = "orierr" -> <<"move_to", "filter">>))
    /\ [][pc'["pose"] # pc["pose"] =>
             /\ gridMap' = gridMap
             /\ pubs' = pubs
             /\ mapMutex' = mapMutex
             /\ (pc["pose"] = "idle") =
                   ("pose" \in engine'.inside /\ engine'.gen = engine.gen + 1)
             /\ (pc["pose"] # "idle") => engine'.gen = engine.gen
             /\ (pc["pose"] # "filter") =>
                   /\ lowpassPosition' = lowpassPosition
                   /\ lowpassOrientation' = lowpassOrientation]_vars

\* A pose callback is past move_to and its filter update while a map is
\* cached and published.
C9_Witness == pc["pose"] = "orierr" /\ gridMap.exists /\ pubs.map > 0

\* The exponential moving average of the first n samples' field f from
\* start (in sample units), in closed form and scaled by Scale:
\*   (1 - a)^n * start + sum over k of a * (1 - a)^(n - k) * raw_k.
RECURSIVE EmaSum(_, _, _, _, _, _)
EmaSum(alphaNum, log, f, i, n, k) ==
    IF k = 0 THEN 0
    ELSE alphaNum * Pow(AlphaDen - alphaNum, n - k) * log[k][f][i]
             * Pow(AlphaDen, MaxPoses - (n - k) - 1)
         + EmaSum(alphaNum, log, f, i, n, k - 1)

Ema(alphaNum, log, f, start) ==
    LET n == Len(log)
    IN [i \in DOMAIN start |->
           Pow(AlphaDen - alphaNum, n) * start[i] * Pow(AlphaDen, MaxPoses - n)
           + EmaSum(alphaNum, log, f, i, n, n)]

\* C10: after N pose samples the smoothed position is the exponential
\* moving average of the N raw positions from (0,0,0) with positionAlpha,
\* and the smoothed orientation that of the raw orientations with
\* orientationAlpha.
C10_LowpassIsEma ==
    /\ lowpassPosition = Ema(positionAlpha, poseLog, "position", <<0, 0, 0>>)
    /\ lowpassOrientation =
          Ema(orientationAlpha, poseLog, "orientation", <<0, 0, 0, 1>>)

\* Several samples have been smoothed, with two different factors.
C10_Witness ==
    /\ Len(poseLog) = MaxPoses
    /\ positionAlpha # orientationAlpha
    /\ lowpassPosition # ZeroVec3
    /\ poseLog[1] # poseLog[2]

\* The smoothed field f as it stood before the last sample of the log.
Front(log) == SubSeq(log, 1, Len(log) - 1)

\* Ema scales by AlphaDen^MaxPoses whatever the length of the log.
PreviousPosition == Ema(positionAlpha, Front(poseLog), "position", <<0, 0, 0>>)
PreviousOrientation ==
    Ema(orientationAlpha, Front(poseLog), "orientation", <<0, 0, 0, 1>>)

LastSample == poseLog[Len(poseLog)]

\* C11: once a pose callback has returned, each error is the norm of the raw
\* sample minus the smoothed state as updated by that sample, which is
\* (1 - alpha) times the distance from the raw sample to the smoothed state
\* before the update (here squared: (AlphaDen - a)^2 / AlphaDen^2), and so
\* differs from that distance whenever it is not 0.
C11_ErrorsAfterUpdate ==
    (pc["pose"] = "idle" /\ poseLog # <<>>) =>
        /\ positionError = NormSq(LastSample.position, lowpassPosition)
        /\ orientationError =
              NormSq(LastSample.orientation, lowpassOrientation)
        /\ positionError * AlphaDen * AlphaDen =
              (AlphaDen - positionAlpha) * (AlphaDen - positionAlpha)
                  * NormSq(LastSample.position, PreviousPosition)
        /\ orientationError * AlphaDen * AlphaDen =
              (AlphaDen - orientationAlpha) * (AlphaDen - orientationAlpha)
                  * NormSq(LastSample.orientation, PreviousOrientation)
        /\ NormSq(LastSample.position, PreviousPosition) > 0 =>
              positionError # NormSq(LastSample.position, PreviousPosition)

\* A second sample has left a residual, with a smoothing factor below 1.
C11_Witness ==
    /\ pc["pose"] = "idle"
    /\ Len(poseLog) >= 2
    /\ positionAlpha < AlphaDen
    /\ positionError > 0
    /\ orientationError > 0

\* C12: positionError_ is never negative; it is 0 after a sample whose raw
\* position is the smoothed position before the update; after the first
\* sample it is 0 only for a raw position of (0,0,0) or a factor of 1.
C12_PositionErrorZero ==
    /\ positionError >= 0
    /\ (pc["pose"] \in {"idle", "orierr"} /\ poseLog # <<>>) =>
          /\ [i \in 1..3 |-> LastSample.position[i] * Scale] = PreviousPosition
                => positionError = 0
          /\ Len(poseLog) = 1 =>
                (positionError = 0) =
                    (LastSample.position = <<0, 0, 0>>
                        \/ positionAlpha = AlphaDen)

\* A sample away from the origin has met a smoothed position equal to it.
C12_Witness ==
    /\ pc["pose"] = "idle"
    /\ Len(poseLog) = 2
    /\ LastSample.position # <<0, 0, 0>>
    /\ [i \in 1..3 |-> LastSample.position[i] * Scale] = PreviousPosition
    /\ positionError = 0

\* C13: with recordable_fps <= 0 there is no timer and the throttled
\* channel stays silent; with a timer, a firing that finds the elevation
\* layer in gridMap_ publishes one message holding that layer alone, and a
\* firing that does not publishes nothing, so that nothing is published
\* before the first snapshot.
C13_ThrottledChannel ==
    /\ [](recordableFps <= 0 => (pubs.recordable = 0 /\ pc["timer"] = "idle"))
    /\ [](~gridMap.exists => pubs.recordable = 0)
    /\ [](pc["timer"] \in {"lock", "ser", "pub"} =>
             trace["timer"] = <<"elevation">>)
    /\ [][/\ (pc["timer"] = "check" /\ pc'["timer"] # "check") =>
               /\ pc'["timer"] = (IF gridMap.exists THEN "lock" ELSE "idle")
               /\ pubs' = pubs
          /\ (pc["timer"] = "lock" /\ pc'["timer"] # "lock") =>
               (pc'["timer"] = "ser" /\ pubs' = pubs)
          /\ (pc["timer"] = "ser" /\ pc'["timer"] # "ser") =>
               (pc'["timer"] = "pub" /\ pubs' = pubs)
          /\ (pc["timer"] = "pub" /\ pc'["timer"] # "pub") =>
               /\ pc'["timer"] = "idle"
               /\ pubs'.recordable = pubs.recordable + 1
          /\ pubs'.recordable # pubs.recordable =>
               /\ pc["timer"] = "pub"
               /\ trace["timer"] = <<"elevation">>
               /\ gridMap.exists]_vars

\* The timer has published once, and a later firing is under way.
C13_Witness == pubs.recordable = 1 /\ pc["timer"] = "check"


\* The step on which getSubmap returns (or is left by an exception).
SubmapReturned == pc["submap"] = "extract" /\ pc'["submap"] = "idle"

\* The requested region lies inside the cached map.
RegionInside(request) ==
    \A i \in 1..2 : AxisInside(request.position[i], request.length[i],
                               gridMap.geometry.length[i])

\* C14: for every get_raw_submap request the handler does not raise, the map
\* it puts into the response is well formed (every layer has the cell
\* dimensions of the map), and the value it returns is the success flag of
\* the extraction: true exactly when the region lies inside the cached map.
C14_SubmapNeverRaises ==
    [][SubmapReturned =>
         /\ submapResponse'.status = "returned"
         /\ submapResponse'.zeroSize = submapResponse'.size
         /\ Range(submapResponse'.layers) \subseteq
               Range(MapLayers(gridMap) \o AuxLayers)
         /\ submapResponse'.success = RegionInside(submapResponse'.request)
         /\ submapResponse'.success =>
               submapResponse'.length = submapResponse'.request.length]_vars

\* C15: a get_raw_submap response carries every layer of the submap (the
\* extracted layers and the nine auxiliary ones) when the request lists no
\* layer, and exactly the listed layers, in their order, when it lists some.
C15_LayerSelection ==
    [][(SubmapReturned /\ submapResponse'.status = "returned") =>
         /\ submapResponse'.request.layers = <<>> =>
               /\ submapResponse'.layers = MapLayers(gridMap) \o AuxLayers
               /\ Len(submapResponse'.layers) = Len(MapLayers(gridMap)) + 9
         /\ submapResponse'.request.layers # <<>> =>
               submapResponse'.layers = submapResponse'.request.layers]_vars

C15_Witness ==
    /\ submapResponse.status = "returned"
    /\ submapResponse.request.layers = <<"time", "elevation">>
    /\ submapResponse.layers = <<"time", "elevation">>

\* C19: the zero matrix that getSubmap adds as each auxiliary layer has the
\* rows and columns of the submap's own layers, whatever the resolution of
\* the map and the requested length, and getSubmap leaves gridMap_ as it is.
C19_AuxLayersMatchSubmap ==
    [][SubmapReturned =>
         /\ submapResponse'.zeroSize = submapResponse'.size
         /\ gridMap' = gridMap]_vars


\* C16: map_.initialize returns exactly once, in the constructor, before any
\* input, move_to, get_grid_map or clear call reaches the engine: no pose,
\* point-cloud, timer or service callback runs before it has returned.
C16_InitializeOnceFirst ==
    /\ [](engine.initialized =
             IF pc[MainThread] = "initialize" THEN 0 ELSE 1)
    /\ []((\/ \E t \in Threads : pc[t] # "idle"
           \/ calls > 0
           \/ engine.gen > 0
           \/ engine.inside # {}
           \/ gridMap.exists
           \/ lastSetRequest # <<>>)
          => (engine.initialized = 1 /\ pc[MainThread] = "spin"))
    /\ [][engine.initialized' # engine.initialized =>
            /\ pc[MainThread] = "initialize"
            /\ engine.initialized' = 1
            /\ calls = 0 /\ engine.gen = 0 /\ engine.inside = {}
            /\ \A t \in Threads : pc[t] = "idle"]_vars

C16_Witness ==
    /\ pc[MainThread] = "spin"
    /\ engine.initialized = 1
    /\ engine.gen = 2
    /\ gridMap.exists
    /\ calls = MaxCalls

\* The uncertainties as the pose callback writes them on its k-th sample
\* (lines 110-111), 0 before the first.
PositionErrorAfter(k) ==
    IF k = 0 THEN 0
    ELSE NormSq(poseLog[k].position,
                Ema(positionAlpha, SubSeq(poseLog, 1, k), "position",
                    <<0, 0, 0>>))
OrientationErrorAfter(k) ==
    IF k = 0 THEN 0
    ELSE NormSq(poseLog[k].orientation,
                Ema(orientationAlpha, SubSeq(poseLog, 1, k), "orientation",
                    <<0, 0, 0, 1>>))
\* The number of samples whose orientation error has been written.
OrientationErrorsWritten ==
    IF pc["pose"] = "orierr" THEN Len(poseLog) - 1 ELSE Len(poseLog)

\* C17: the smoothed pose and the two uncertainties are written by the pose
\* callback only, every step of a point-cloud, timer or service callback
\* leaves them as they are; and the uncertainties that a point-cloud
\* callback passes to map_.input are values that a finished or running pose
\* callback has written, or the initial zeros.
C17_FilterWrittenByPoseOnly ==
    /\ [][pc'["pose"] = pc["pose"] =>
            UNCHANGED <<lowpassPosition, lowpassOrientation,
                        positionError, orientationError>>]_vars
    /\ [][\A t \in PcThreads :
            (pc[t] = "idle" /\ pc'[t] = "inputting") =>
                inputArgs' = <<positionError, orientationError>>]_vars
    /\ [](inputArgs[1] \in
             { PositionErrorAfter(k) : k \in 0..Len(poseLog) })
    /\ [](inputArgs[2] \in
             { OrientationErrorAfter(k) : k \in 0..OrientationErrorsWritten })
    /\ [](poseLog = <<>> => inputArgs = <<0, 0>>)

\* A scan enters map_.input between the two writes of the second pose
\* sample: the position error is the second sample's, the orientation error
\* still the first's.
C17_Witness ==
    /\ pc["pose"] = "orierr"
    /\ Len(poseLog) = 2
    /\ \E t \in PcThreads : pc[t] = "inputting"
    /\ inputArgs = <<PositionErrorAfter(2), OrientationErrorAfter(1)>>
    /\ PositionErrorAfter(2) # PositionErrorAfter(1)
    /\ OrientationErrorAfter(2) # OrientationErrorAfter(1)


\* The callbacks that take mapMutex_.
LockingThreads == PcThreads \cup {"timer"}

\* C18: a callback holds mapMutex_ only inside its locked block and has
\* released it when it returns; under fair scheduling every point-cloud and
\* timer callback that was dispatched returns, and every callback waiting
\* for the lock gets it.
C18_LockReleasedCallbacksComplete ==
    /\ [](\A t \in Threads :
            mapMutex = t =>
                /\ t \in LockingThreads
                /\ pc[t] \in {"snap", "snapping", "tomsg", "ser", "pub"})
    /\ \A t \in LockingThreads : (pc[t] # "idle") ~> (pc[t] = "idle")
    /\ \A t \in LockingThreads : (pc[t] = "lock") ~> (mapMutex = t)

\* A point-cloud callback waits for the lock the timer callback holds.
C18_Witness ==
    /\ mapMutex = "timer"
    /\ pc["timer"] = "ser"
    /\ \E t \in PcThreads : pc[t] = "lock"

====
